---- MODULE Spec2Model ----
(***************************************************************************)
(* Model of assets/functions/handler.py: the Lambda that moves closed      *)
(* (SUSPENDED) AWS accounts into the "Graveyard" organizational unit.      *)
(*                                                                         *)
(* The AWS Organizations directory is the environment: the OU tree, the    *)
(* account listing, each account's status and parent.  Every call to it    *)
(* either answers from the current directory or fails.  A run of one of    *)
(* the module's functions is a small process: pc[r] is its position, the   *)
(* other per-run variables are the function's locals, and log[r] is the    *)
(* ordered record of the directory calls and sleeps the run has made.      *)
(***************************************************************************)
EXTENDS Integers, Sequences, FiniteSets, TLC

VARIABLES
    nOUs, ouParent, ouName,             \* the OU tree under the root
    accountList, accStatus, accParent,  \* list_accounts order, Status, parent
    pageSize,                           \* items the paginators put on a page
    env,                                \* os.environ['GRAVEYARD_OU_NAME']
    changes,                            \* changes other actors have made
    active,                             \* the runs that get invoked
    pc, ou_name, graveyard_ou_id, accounts_to_process,
    scanPage, scanIdx, candIdx, attempt, source,
    processed_accounts, failed_accounts, result, log

dirVars == <<nOUs, ouParent, ouName, accountList, accStatus, accParent, pageSize, env,
             changes>>
runVars == <<pc, ou_name, graveyard_ou_id, accounts_to_process, scanPage, scanIdx,
             candIdx, attempt, source, processed_accounts, failed_accounts, result, log>>
vars == <<dirVars, active, runVars>>

(***************************************************************************)
(* Bounds of the model.                                                    *)
(***************************************************************************)
MaxOUs == 3          \* OUs in the trees get_ou_id_by_name is checked on
MaxAccounts == 2     \* accounts in the listing lambda_handler is run on
MaxListing == 3      \* accounts in the listings get_accounts_to_process is checked on
MaxPageSize == 2     \* page sizes 1..MaxPageSize
MaxShared == 1       \* accounts in a directory that several runs or actors use

(***************************************************************************)
(* Values.                                                                 *)
(***************************************************************************)
NONE == "None"                       \* Python's None
ROOT == "r-root"                     \* list_roots()["Roots"][0]["Id"]
OUIds == <<"ou-1", "ou-2", "ou-3", "ou-4", "ou-5">>
AccountIds == <<"111", "222", "333", "444", "555">>
OUNames == {"Graveyard", "graveyard", "Eng"}
Statuses == {"ACTIVE", "SUSPENDED", "PENDING_CLOSURE"}
Runs == {"r1", "r2"}

OUSet(n) == {OUIds[i] : i \in 1..n}
OUs == OUSet(nOUs)
OUIndex(o) == CHOOSE i \in 1..Len(OUIds) : OUIds[i] = o
Accounts == {accountList[i] : i \in 1..Len(accountList)}

Ret(v) == [kind |-> "return", val |-> v]
Raise(e) == [kind |-> "raise", val |-> e]
Pending == [kind |-> "none", val |-> NONE]

\* Python truthiness of an id-or-None value ("if child_ou_id:", "if not ou_id:").
Truthy(v) == v # NONE /\ v # ""

(***************************************************************************)
(* Paginators: paginate() yields the items in pages of pageSize; an empty  *)
(* listing is one empty page.                                              *)
(***************************************************************************)
RECURSIVE Chunks(_, _)
Chunks(s, n) ==
    IF Len(s) <= n THEN <<s>>
    ELSE <<SubSeq(s, 1, n)>> \o Chunks(SubSeq(s, n + 1, Len(s)), n)

\* list_organizational_units_for_parent(ParentId=p), in listing order.
ChildOUs(p) == SelectSeq(SubSeq(OUIds, 1, nOUs), LAMBDA o : ouParent[o] = p)

OUPages(p) == Chunks(ChildOUs(p), pageSize)
AccountPages == Chunks(accountList, pageSize)

(***************************************************************************)
(* The log of a run: one event per directory call or sleep, in order.      *)
(***************************************************************************)
\* phase: "resolve", "scan" or "move"; out: "ok" or the exception raised.
Ev(phase, op, acct, src, dst, out, delay) ==
    [phase |-> phase, op |-> op, acct |-> acct, src |-> src, dst |-> dst,
     out |-> out, delay |-> delay]

(***************************************************************************)
(* get_ou_id_by_name (handler.py 81-139).  fault names the one directory   *)
(* call of the search that fails, if any: "list_roots", or the id of the   *)
(* parent whose child listing raises ClientError.                          *)
(***************************************************************************)
\* A comparison that ignores case.
LowerCase(name) == IF name = "Graveyard" THEN "graveyard" ELSE name
NameMatchesAnyCase(name, wanted) == LowerCase(name) = LowerCase(wanted)

\* ou["Name"] == ou_name
NameMatches(name, wanted) == name = wanted

RECURSIVE search_ou(_, _, _)
RECURSIVE search_page(_, _, _)
RECURSIVE search_pages(_, _, _)

\* A search that compares every name on the page before it descends.
RECURSIVE search_page_names_first(_, _, _)
search_page_names_first(page, wanted, fault) ==
    LET named == SelectSeq(page, LAMBDA ou : NameMatches(ouName[ou], wanted)) IN
    IF page = <<>> THEN [kind |-> "next", val |-> NONE]
    ELSE IF named # <<>> THEN Ret(Head(named))
    ELSE LET child_ou_id == search_ou(Head(page), wanted, fault) IN
         IF child_ou_id.kind = "raise" THEN child_ou_id
         ELSE IF Truthy(child_ou_id.val) THEN child_ou_id
         ELSE search_page_names_first(Tail(page), wanted, fault)

\* A search that looks at the names on the page and never below them.
RECURSIVE search_page_flat(_, _, _)
search_page_flat(page, wanted, fault) ==
    IF page = <<>> THEN [kind |-> "next", val |-> NONE]
    ELSE LET ou == Head(page) IN
         IF NameMatches(ouName[ou], wanted) THEN Ret(ou)
         ELSE search_page_flat(Tail(page), wanted, fault)

\* for ou in page["OrganizationalUnits"]: ... ; "next" = fell off the page
search_page(page, wanted, fault) ==
    IF page = <<>> THEN [kind |-> "next", val |-> NONE]
    ELSE LET ou == Head(page) IN
         IF NameMatches(ouName[ou], wanted) THEN Ret(ou)
         ELSE LET child_ou_id == search_ou(ou, wanted, fault) IN
              IF child_ou_id.kind = "raise" THEN child_ou_id
              ELSE IF Truthy(child_ou_id.val) THEN child_ou_id
              ELSE search_page(Tail(page), wanted, fault)

\* for page in paginator.paginate(ParentId=parent_id): ... ; return None
search_pages(pages, wanted, fault) ==
    IF pages = <<>> THEN Ret(NONE)
    ELSE LET r == search_page(Head(pages), wanted, fault) IN
         IF r.kind = "next" THEN search_pages(Tail(pages), wanted, fault) ELSE r

search_ou(parent_id, wanted, fault) ==
    IF fault = parent_id THEN Raise("ClientError")
    ELSE search_pages(OUPages(parent_id), wanted, fault)

\* A resolver without the not-found check: it hands None back.
get_ou_id_by_name_unchecked(wanted, fault) ==
    IF fault = "list_roots" THEN Raise("ClientError")
    ELSE search_ou(ROOT, wanted, fault)

get_ou_id_by_name(wanted, fault) ==
    IF fault = "list_roots" THEN Raise("ClientError")
    ELSE LET ou_id == search_ou(ROOT, wanted, fault) IN
         IF ou_id.kind = "raise" THEN ou_id
         ELSE IF ~Truthy(ou_id.val) THEN Raise("ValueError: Could not find OU")
         ELSE Ret(ou_id.val)

\* The directory calls a resolution can be made to fail at.
ResolveFaults == {NONE, "list_roots", ROOT} \cup OUs

(***************************************************************************)
(* get_current_parent (handler.py 336-379).                                *)
(***************************************************************************)
\* organizations_client.list_parents(ChildId=account_id): the answer of the
\* directory, an answer that reports no parent, or a request-layer error.
list_parents(account_id) ==
    { Ret([Parents |-> <<accParent[account_id]>>]),
      Ret([Parents |-> <<>>]),
      Raise("ClientError") }

\* A function that answers None when no parent is reported.
get_current_parent_or_none(response) ==
    IF response.kind = "raise" THEN response
    ELSE IF "Parents" \in DOMAIN response.val /\ Len(response.val.Parents) > 0
         THEN Ret(response.val.Parents[1])
         ELSE Ret(NONE)

\* get_current_parent, given what list_parents did.
get_current_parent(response) ==
    IF response.kind = "raise" THEN response
    ELSE IF "Parents" \in DOMAIN response.val /\ Len(response.val.Parents) > 0
         THEN Ret(response.val.Parents[1])
         ELSE Raise("ValueError: Could not find parent")

(***************************************************************************)
(* Per-run updates.                                                        *)
(***************************************************************************)
Set(f, r, v) == [f EXCEPT ![r] = v]
Logged(r, e) == [log EXCEPT ![r] = Append(@, e)]

\* The function raises: the run ends with the exception e (a Raise record).
\* get_accounts_to_process (194-202) and lambda_handler (324-333) log and re-raise.
Raises(r, e) ==
    /\ pc' = Set(pc, r, "done")
    /\ result' = Set(result, r, e)

(***************************************************************************)
(* lambda_handler, lines 218-219: read the configuration, resolve the OU.  *)
(***************************************************************************)
\* A handler that reads the name with a default (os.environ.get) and goes on.
InvokeWithDefault(r) ==
    /\ r \in active
    /\ pc[r] = "idle"
    /\ pc' = Set(pc, r, "resolve")
    /\ ou_name' = Set(ou_name, r, IF env = NONE THEN "Graveyard" ELSE env)
    /\ UNCHANGED <<dirVars, active, graveyard_ou_id, accounts_to_process, scanPage,
                   scanIdx, candIdx, attempt, source, processed_accounts,
                   failed_accounts, result, log>>

\* os.environ['GRAVEYARD_OU_NAME'] raises KeyError when the variable is unset.
Invoke(r) ==
    /\ r \in active
    /\ pc[r] = "idle"
    /\ IF env = NONE
       THEN /\ Raises(r, Raise("KeyError"))
            /\ UNCHANGED ou_name
       ELSE /\ pc' = Set(pc, r, "resolve")
            /\ ou_name' = Set(ou_name, r, env)
            /\ UNCHANGED result
    /\ UNCHANGED <<dirVars, active, graveyard_ou_id, accounts_to_process, scanPage,
                   scanIdx, candIdx, attempt, source, processed_accounts,
                   failed_accounts, log>>

\* graveyard_ou_id = get_ou_id_by_name(...)
Resolve(r) ==
    /\ pc[r] = "resolve"
    /\ \E fault \in ResolveFaults :
         LET ou_id == get_ou_id_by_name(ou_name[r], fault) IN
         /\ log' = Logged(r, Ev("resolve", "get_ou_id_by_name", NONE, NONE,
                                IF ou_id.kind = "raise" THEN NONE ELSE ou_id.val,
                                IF ou_id.kind = "raise" THEN ou_id.val ELSE "ok", 0))
         /\ IF ou_id.kind = "raise"
            THEN /\ Raises(r, ou_id)
                 /\ UNCHANGED <<graveyard_ou_id, scanPage>>
            ELSE /\ graveyard_ou_id' = Set(graveyard_ou_id, r, ou_id.val)
                 /\ pc' = Set(pc, r, "scan_page")
                 /\ scanPage' = Set(scanPage, r, 1)
                 /\ UNCHANGED result
    /\ UNCHANGED <<dirVars, active, ou_name, accounts_to_process, scanIdx, candIdx,
                   attempt, source, processed_accounts, failed_accounts>>

(***************************************************************************)
(* get_accounts_to_process (handler.py 142-202).                           *)
(***************************************************************************)
\* A scan that forgets the status check.
IsClosedAlways(status) == TRUE

\* account['Status'] == 'SUSPENDED'
IsClosed(status) == status = "SUSPENDED"

\* A scan that forgets the location check.
NeedsMoveAlways(current_parent, target) == TRUE

\* current_parent != graveyard_ou_id
NeedsMove(current_parent, target) == current_parent # target

\* A scan that swallows the exception and goes on with what it has collected.
ScanFailsKeepsPartial(r, e) ==
    /\ pc' = Set(pc, r, "scanned")
    /\ UNCHANGED result

\* except Exception as e: logger.error(...); raise   (lines 194-202)
ScanFails(r, e) == Raises(r, e)

\* for page in paginator.paginate(): one list_accounts call per page.
ScanListPage(r) ==
    /\ pc[r] = "scan_page"
    /\ \E ok \in BOOLEAN :
         /\ log' = Logged(r, Ev("scan", "list_accounts", NONE, NONE, NONE,
                                IF ok THEN "ok" ELSE "ClientError", 0))
         /\ IF ok
            THEN /\ pc' = Set(pc, r, "scan_acct")
                 /\ scanIdx' = Set(scanIdx, r, 1)
                 /\ UNCHANGED result
            ELSE /\ ScanFails(r, Raise("ClientError"))
                 /\ UNCHANGED scanIdx
    /\ UNCHANGED <<dirVars, active, ou_name, graveyard_ou_id, accounts_to_process,
                   scanPage, candIdx, attempt, source, processed_accounts,
                   failed_accounts>>

ScanPageOf(r) == AccountPages[scanPage[r]]
ScanAccountOf(r) == ScanPageOf(r)[scanIdx[r]]

\* The inner loop is over: next page, or the listing is exhausted.
ScanPageEnd(r) ==
    /\ pc[r] = "scan_acct"
    /\ scanIdx[r] > Len(ScanPageOf(r))
    /\ IF scanPage[r] < Len(AccountPages)
       THEN /\ pc' = Set(pc, r, "scan_page")
            /\ scanPage' = Set(scanPage, r, scanPage[r] + 1)
       ELSE /\ pc' = Set(pc, r, "scanned")
            /\ UNCHANGED scanPage
    /\ UNCHANGED <<dirVars, active, ou_name, graveyard_ou_id, accounts_to_process,
                   scanIdx, candIdx, attempt, source, processed_accounts,
                   failed_accounts, result, log>>

\* A loop that does not go on to the next account after passing one over.
ScanSkipStuck(r) ==
    /\ pc[r] = "scan_acct"
    /\ scanIdx[r] <= Len(ScanPageOf(r))
    /\ ~IsClosed(accStatus[ScanAccountOf(r)])
    /\ UNCHANGED vars

\* A scan that looks the parent up before it tests the state.
ScanSkipLooksUp(r) ==
    /\ pc[r] = "scan_acct"
    /\ scanIdx[r] <= Len(ScanPageOf(r))
    /\ ~IsClosed(accStatus[ScanAccountOf(r)])
    /\ \E response \in list_parents(ScanAccountOf(r)) :
         LET current_parent == get_current_parent(response) IN
         /\ log' = Logged(r, Ev("scan", "list_parents", ScanAccountOf(r),
                                IF current_parent.kind = "raise"
                                THEN NONE ELSE current_parent.val, NONE,
                                IF current_parent.kind = "raise"
                                THEN current_parent.val ELSE "ok", 0))
         /\ IF current_parent.kind = "raise"
            THEN /\ ScanFails(r, current_parent)
                 /\ UNCHANGED scanIdx
            ELSE /\ scanIdx' = Set(scanIdx, r, scanIdx[r] + 1)
                 /\ UNCHANGED <<pc, result>>
    /\ UNCHANGED <<dirVars, active, ou_name, graveyard_ou_id, accounts_to_process,
                   scanPage, candIdx, attempt, source, processed_accounts,
                   failed_accounts>>

\* A scan that keeps an account in another state without looking it up.
ScanSkipKeeps(r) ==
    /\ pc[r] = "scan_acct"
    /\ scanIdx[r] <= Len(ScanPageOf(r))
    /\ ~IsClosed(accStatus[ScanAccountOf(r)])
    /\ accounts_to_process' =
           Set(accounts_to_process, r, Append(accounts_to_process[r], ScanAccountOf(r)))
    /\ scanIdx' = Set(scanIdx, r, scanIdx[r] + 1)
    /\ UNCHANGED <<dirVars, active, pc, ou_name, graveyard_ou_id,
                   scanPage, candIdx, attempt, source, processed_accounts,
                   failed_accounts, result, log>>

\* An account in another state is passed over without a directory call.
ScanSkip(r) ==
    /\ pc[r] = "scan_acct"
    /\ scanIdx[r] <= Len(ScanPageOf(r))
    /\ ~IsClosed(accStatus[ScanAccountOf(r)])
    /\ scanIdx' = Set(scanIdx, r, scanIdx[r] + 1)
    /\ UNCHANGED <<dirVars, active, pc, ou_name, graveyard_ou_id, accounts_to_process,
                   scanPage, candIdx, attempt, source, processed_accounts,
                   failed_accounts, result, log>>

\* A SUSPENDED account: look its parent up, keep it unless it is under the target.
ScanLookup(r) ==
    /\ pc[r] = "scan_acct"
    /\ scanIdx[r] <= Len(ScanPageOf(r))
    /\ IsClosed(accStatus[ScanAccountOf(r)])
    /\ \E response \in list_parents(ScanAccountOf(r)) :
         LET account_id == ScanAccountOf(r)
             current_parent == get_current_parent(response)
         IN
         /\ log' = Logged(r, Ev("scan", "list_parents", account_id,
                                IF current_parent.kind = "raise"
                                THEN NONE ELSE current_parent.val, NONE,
                                IF current_parent.kind = "raise"
                                THEN current_parent.val ELSE "ok", 0))
         /\ IF current_parent.kind = "raise"
            THEN /\ ScanFails(r, current_parent)
                 /\ UNCHANGED <<accounts_to_process, scanIdx>>
            ELSE /\ accounts_to_process' =
                        IF NeedsMove(current_parent.val, graveyard_ou_id[r])
                        THEN Set(accounts_to_process, r,
                                 Append(accounts_to_process[r], account_id))
                        ELSE accounts_to_process
                 /\ scanIdx' = Set(scanIdx, r, scanIdx[r] + 1)
                 /\ UNCHANGED <<pc, result>>
    /\ UNCHANGED <<dirVars, active, ou_name, graveyard_ou_id, scanPage, candIdx,
                   attempt, source, processed_accounts, failed_accounts>>

(***************************************************************************)
(* lambda_handler, lines 222-322: the short-circuit and the move loop.     *)
(***************************************************************************)
max_retries == 3
base_delay == 1

\* A backoff that doubles from the first retry on.
DelayDoubled(n) == base_delay * (2 ^ (n + 1))

\* delay = base_delay * (2 ** attempt)
Delay(n) == base_delay * (2 ^ n)

\* A bare "except Exception" around the attempt: every error is retried.
IsAnyError(e) == TRUE

\* except ClientError as ce
IsClientError(e) == e = "ClientError"

\* A test that is off by one: a fourth attempt is made.
IsLastAttemptLate(n) == n = max_retries

\* if attempt == max_retries - 1: raise
IsLastAttempt(n) == n = max_retries - 1

\* if not accounts_to_process
NothingToProcess(accounts) == accounts = <<>>

NoAccountsBody == "No closed accounts found to process"

\* A short-circuit normalised to the aggregate's shape.
NoAccountsAsAggregate ==
    [statusCode |-> 200,
     body_type |-> "dict",
     body |-> [processed_accounts |-> <<>>, failed_accounts |-> <<>>,
               total_processed |-> 0, total_failed |-> 0]]

\* The two results of lambda_handler; body_type is the Python type of body.
NoAccounts == [statusCode |-> 200, body_type |-> "str", body |-> NoAccountsBody]

\* An aggregate whose first total counts every candidate.
AggregateCountsCandidates(processed, failed) ==
    [statusCode |-> 200,
     body_type |-> "dict",
     body |-> [processed_accounts |-> processed,
               failed_accounts |-> failed,
               total_processed |-> Len(processed) + Len(failed),
               total_failed |-> Len(failed)]]

\* lines 314-322
Aggregate(processed, failed) ==
    [statusCode |-> 200,
     body_type |-> "dict",
     body |-> [processed_accounts |-> processed,
               failed_accounts |-> failed,
               total_processed |-> Len(processed),
               total_failed |-> Len(failed)]]

\* organizations_client.move_account(...): the directory moves the account only
\* when SourceParentId is its parent; any call can fail with a request-layer
\* error (ClientError) or with another exception.
move_account(account_id, source_parent, destination_parent) ==
    (IF accParent[account_id] = source_parent THEN {"ok"} ELSE {})
        \cup {"ClientError", "Exception"}

\* lines 222-233
NoCandidates(r) ==
    /\ pc[r] = "scanned"
    /\ NothingToProcess(accounts_to_process[r])
    /\ pc' = Set(pc, r, "done")
    /\ result' = Set(result, r, Ret(NoAccounts))
    /\ UNCHANGED <<dirVars, active, ou_name, graveyard_ou_id, accounts_to_process,
                   scanPage, scanIdx, candIdx, attempt, source, processed_accounts,
                   failed_accounts, log>>

\* lines 235-245: the first candidate, its first attempt
BeginRelocation(r) ==
    /\ pc[r] = "scanned"
    /\ ~NothingToProcess(accounts_to_process[r])
    /\ pc' = Set(pc, r, "lookup")
    /\ candIdx' = Set(candIdx, r, 1)
    /\ attempt' = Set(attempt, r, 0)
    /\ UNCHANGED <<dirVars, active, ou_name, graveyard_ou_id, accounts_to_process,
                   scanPage, scanIdx, source, processed_accounts, failed_accounts,
                   result, log>>

\* A loop that takes the candidates from the end of the list.
CandidateReversed(r) ==
    accounts_to_process[r][Len(accounts_to_process[r]) - candIdx[r] + 1]

\* for account_id in accounts_to_process   (line 239)
Candidate(r) == accounts_to_process[r][candIdx[r]]

\* A loop that a failed candidate ends: the candidates after it are dropped.
SettleStopsAtFailure(r, processed, failed) ==
    /\ processed_accounts' = Set(processed_accounts, r, processed)
    /\ failed_accounts' = Set(failed_accounts, r, failed)
    /\ IF candIdx[r] < Len(accounts_to_process[r]) /\ failed = failed_accounts[r]
       THEN /\ candIdx' = Set(candIdx, r, candIdx[r] + 1)
            /\ attempt' = Set(attempt, r, 0)
            /\ pc' = Set(pc, r, "lookup")
            /\ UNCHANGED result
       ELSE /\ pc' = Set(pc, r, "done")
            /\ result' = Set(result, r, Ret(Aggregate(processed, failed)))
            /\ UNCHANGED <<candIdx, attempt>>

\* A loop whose attempt counter is not started again for the next candidate.
SettleKeepsAttempt(r, processed, failed) ==
    /\ processed_accounts' = Set(processed_accounts, r, processed)
    /\ failed_accounts' = Set(failed_accounts, r, failed)
    /\ IF candIdx[r] < Len(accounts_to_process[r])
       THEN /\ candIdx' = Set(candIdx, r, candIdx[r] + 1)
            /\ pc' = Set(pc, r, "lookup")
            /\ UNCHANGED <<result, attempt>>
       ELSE /\ pc' = Set(pc, r, "done")
            /\ result' = Set(result, r, Ret(Aggregate(processed, failed)))
            /\ UNCHANGED <<candIdx, attempt>>

\* The candidate is done: processed_accounts.append (271) and break, or
\* failed_accounts.append (299) and continue; after the last one, lines 302-322.
Settle(r, processed, failed) ==
    /\ processed_accounts' = Set(processed_accounts, r, processed)
    /\ failed_accounts' = Set(failed_accounts, r, failed)
    /\ IF candIdx[r] < Len(accounts_to_process[r])
       THEN /\ candIdx' = Set(candIdx, r, candIdx[r] + 1)
            /\ attempt' = Set(attempt, r, 0)
            /\ pc' = Set(pc, r, "lookup")
            /\ UNCHANGED result
       ELSE /\ pc' = Set(pc, r, "done")
            /\ result' = Set(result, r, Ret(Aggregate(processed, failed)))
            /\ UNCHANGED <<candIdx, attempt>>

\* A success without the break: the account is recorded and the attempt loop
\* goes on while attempts are left.
OnSuccessNoBreak(r, lg) ==
    /\ log' = lg
    /\ IF attempt[r] = 2
       THEN Settle(r, Append(processed_accounts[r], Candidate(r)), failed_accounts[r])
       ELSE /\ processed_accounts' =
                   Set(processed_accounts, r, Append(processed_accounts[r], Candidate(r)))
            /\ attempt' = Set(attempt, r, attempt[r] + 1)
            /\ pc' = Set(pc, r, "lookup")
            /\ UNCHANGED <<candIdx, failed_accounts, result>>

\* A success recorded at the head of the list (insert(0, ...)).
OnSuccessPrepends(r, lg) ==
    /\ log' = lg
    /\ Settle(r, <<Candidate(r)>> \o processed_accounts[r], failed_accounts[r])

\* move_account returned (lines 263-272): the account is processed, and break.
OnSuccess(r, lg) ==
    /\ log' = lg
    /\ Settle(r, Append(processed_accounts[r], Candidate(r)), failed_accounts[r])

\* A handler without the per-account try: the exception that ends a candidate's
\* attempts leaves lambda_handler.
OnErrorPropagates(r, e, lg) ==
    IF e = "ClientError" /\ attempt[r] # 2
    THEN /\ log' = [lg EXCEPT ![r] = Append(@, Ev("move", "sleep", Candidate(r), NONE,
                                               NONE, "ok", 2 ^ attempt[r]))]
         /\ attempt' = Set(attempt, r, attempt[r] + 1)
         /\ pc' = Set(pc, r, "lookup")
         /\ UNCHANGED <<candIdx, processed_accounts, failed_accounts, result>>
    ELSE /\ log' = lg
         /\ Raises(r, Raise(e))
         /\ UNCHANGED <<candIdx, attempt, processed_accounts, failed_accounts>>

\* A per-account handler that appends to the wrong list.
OnErrorRecordsProcessed(r, e, lg) ==
    IF e = "ClientError" /\ attempt[r] # 2
    THEN /\ log' = [lg EXCEPT ![r] = Append(@, Ev("move", "sleep", Candidate(r), NONE,
                                               NONE, "ok", 2 ^ attempt[r]))]
         /\ attempt' = Set(attempt, r, attempt[r] + 1)
         /\ pc' = Set(pc, r, "lookup")
         /\ UNCHANGED <<candIdx, processed_accounts, failed_accounts, result>>
    ELSE /\ log' = lg
         /\ Settle(r, Append(processed_accounts[r], Candidate(r)), failed_accounts[r])

\* An exception e inside the attempt (lines 273-300): a ClientError before the
\* last attempt sleeps and retries; anything else lands in the per-account
\* handler.  lg is the log with the failed call on it.
OnError(r, e, lg) ==
    IF IsClientError(e) /\ ~IsLastAttempt(attempt[r])
    THEN /\ log' = [lg EXCEPT ![r] = Append(@, Ev("move", "sleep", Candidate(r), NONE,
                                               NONE, "ok", Delay(attempt[r])))]
         /\ attempt' = Set(attempt, r, attempt[r] + 1)
         /\ pc' = Set(pc, r, "lookup")
         /\ UNCHANGED <<candIdx, processed_accounts, failed_accounts, result>>
    ELSE /\ log' = lg
         /\ Settle(r, processed_accounts[r], Append(failed_accounts[r], Candidate(r)))

\* A lookup whose answer is ignored: the parent the scan saw is passed on.
AttemptLookupUsesScanParent(r) ==
    /\ pc[r] = "lookup"
    /\ \E response \in list_parents(Candidate(r)) :
         LET current_parent == get_current_parent(response)
             lg == Logged(r, Ev("move", "list_parents", Candidate(r),
                                IF current_parent.kind = "raise"
                                THEN NONE ELSE current_parent.val, NONE,
                                IF current_parent.kind = "raise"
                                THEN current_parent.val ELSE "ok", 0))
             seen == SelectSeq(log[r], LAMBDA e : /\ e.phase = "scan"
                                                  /\ e.op = "list_parents"
                                                  /\ e.acct = Candidate(r))
         IN
         IF current_parent.kind = "raise"
         THEN /\ OnError(r, current_parent.val, lg)
              /\ UNCHANGED source
         ELSE /\ source' = Set(source, r, seen[1].src)
              /\ pc' = Set(pc, r, "move")
              /\ log' = lg
              /\ UNCHANGED <<candIdx, attempt, processed_accounts, failed_accounts,
                             result>>
    /\ UNCHANGED <<dirVars, active, ou_name, graveyard_ou_id, accounts_to_process,
                   scanPage, scanIdx>>

\* A lookup that checks the candidate again: an account found under the target
\* or no longer SUSPENDED is dropped without a move_account call.
AttemptLookupRevalidates(r) ==
    /\ pc[r] = "lookup"
    /\ \E response \in list_parents(Candidate(r)) :
         LET current_parent == get_current_parent(response)
             lg == Logged(r, Ev("move", "list_parents", Candidate(r),
                                IF current_parent.kind = "raise"
                                THEN NONE ELSE current_parent.val, NONE,
                                IF current_parent.kind = "raise"
                                THEN current_parent.val ELSE "ok", 0))
         IN
         IF current_parent.kind = "raise"
         THEN /\ OnError(r, current_parent.val, lg)
              /\ UNCHANGED source
         ELSE IF \/ current_parent.val = graveyard_ou_id[r]
                 \/ accStatus[Candidate(r)] # "SUSPENDED"
         THEN /\ log' = lg
              /\ Settle(r, processed_accounts[r], failed_accounts[r])
              /\ UNCHANGED source
         ELSE /\ source' = Set(source, r, current_parent.val)
              /\ pc' = Set(pc, r, "move")
              /\ log' = lg
              /\ UNCHANGED <<candIdx, attempt, processed_accounts, failed_accounts,
                             result>>
    /\ UNCHANGED <<dirVars, active, ou_name, graveyard_ou_id, accounts_to_process,
                   scanPage, scanIdx>>

\* A lookup made outside the retried block: its failure goes straight to the
\* per-account handler.
AttemptLookupOutsideRetry(r) ==
    /\ pc[r] = "lookup"
    /\ \E response \in list_parents(Candidate(r)) :
         LET current_parent == get_current_parent(response)
             lg == Logged(r, Ev("move", "list_parents", Candidate(r),
                                IF current_parent.kind = "raise"
                                THEN NONE ELSE current_parent.val, NONE,
                                IF current_parent.kind = "raise"
                                THEN current_parent.val ELSE "ok", 0))
         IN
         IF current_parent.kind = "raise"
         THEN /\ log' = lg
              /\ Settle(r, processed_accounts[r],
                        Append(failed_accounts[r], Candidate(r)))
              /\ UNCHANGED source
         ELSE /\ source' = Set(source, r, current_parent.val)
              /\ pc' = Set(pc, r, "move")
              /\ log' = lg
              /\ UNCHANGED <<candIdx, attempt, processed_accounts, failed_accounts,
                             result>>
    /\ UNCHANGED <<dirVars, active, ou_name, graveyard_ou_id, accounts_to_process,
                   scanPage, scanIdx>>

\* SourceParentId=get_current_parent(account_id), line 259
AttemptLookup(r) ==
    /\ pc[r] = "lookup"
    /\ \E response \in list_parents(Candidate(r)) :
         LET current_parent == get_current_parent(response)
             lg == Logged(r, Ev("move", "list_parents", Candidate(r),
                                IF current_parent.kind = "raise"
                                THEN NONE ELSE current_parent.val, NONE,
                                IF current_parent.kind = "raise"
                                THEN current_parent.val ELSE "ok", 0))
         IN
         IF current_parent.kind = "raise"
         THEN /\ OnError(r, current_parent.val, lg)
              /\ UNCHANGED source
         ELSE /\ source' = Set(source, r, current_parent.val)
              /\ pc' = Set(pc, r, "move")
              /\ log' = lg
              /\ UNCHANGED <<candIdx, attempt, processed_accounts, failed_accounts,
                             result>>
    /\ UNCHANGED <<dirVars, active, ou_name, graveyard_ou_id, accounts_to_process,
                   scanPage, scanIdx>>

\* A destination looked up again by name at the time of each move.
DestinationResolvedAgain(r) ==
    LET ou_id == get_ou_id_by_name(ou_name[r], NONE) IN
    IF ou_id.kind = "raise" THEN graveyard_ou_id[r] ELSE ou_id.val

\* DestinationParentId=graveyard_ou_id, line 260: the id resolved at line 219
Destination(r) == graveyard_ou_id[r]

\* A directory that answers the call and leaves the account where it was.
AttemptMoveNotApplied(r) ==
    /\ pc[r] = "move"
    /\ \E out \in move_account(Candidate(r), source[r], Destination(r)) :
         LET lg == Logged(r, Ev("move", "move_account", Candidate(r), source[r],
                                Destination(r), out, 0))
         IN
         /\ UNCHANGED accParent
         /\ IF out = "ok" THEN OnSuccess(r, lg) ELSE OnError(r, out, lg)
    /\ UNCHANGED <<nOUs, ouParent, ouName, accountList, accStatus, pageSize, env,
                   changes, active, ou_name, graveyard_ou_id, accounts_to_process,
                   scanPage, scanIdx, source>>

\* A directory that carries the move out even when the call ends in an error.
AttemptMoveMovesOnError(r) ==
    /\ pc[r] = "move"
    /\ \E out \in move_account(Candidate(r), source[r], Destination(r)) :
         LET lg == Logged(r, Ev("move", "move_account", Candidate(r), source[r],
                                Destination(r), out, 0))
         IN
         /\ accParent' = [accParent EXCEPT ![Candidate(r)] = Destination(r)]
         /\ IF out = "ok" THEN OnSuccess(r, lg) ELSE OnError(r, out, lg)
    /\ UNCHANGED <<nOUs, ouParent, ouName, accountList, accStatus, pageSize, env,
                   changes, active, ou_name, graveyard_ou_id, accounts_to_process,
                   scanPage, scanIdx, source>>

\* organizations_client.move_account(...), lines 257-272
AttemptMove(r) ==
    /\ pc[r] = "move"
    /\ \E out \in move_account(Candidate(r), source[r], Destination(r)) :
         LET lg == Logged(r, Ev("move", "move_account", Candidate(r), source[r],
                                Destination(r), out, 0))
         IN
         IF out = "ok"
         THEN /\ accParent' = [accParent EXCEPT ![Candidate(r)] = Destination(r)]
              /\ OnSuccess(r, lg)
         ELSE /\ OnError(r, out, lg)
              /\ UNCHANGED accParent
    /\ UNCHANGED <<nOUs, ouParent, ouName, accountList, accStatus, pageSize, env,
                   changes, active, ou_name, graveyard_ou_id, accounts_to_process,
                   scanPage, scanIdx, source>>

\* How a run has ended.
Returned(r) == pc[r] = "done" /\ result[r].kind = "return"
Raised(r) == pc[r] = "done" /\ result[r].kind = "raise"

(***************************************************************************)
(* Initial states.                                                         *)
(***************************************************************************)
InitRuns ==
    /\ pc = [r \in Runs |-> "idle"]
    /\ ou_name = [r \in Runs |-> NONE]
    /\ graveyard_ou_id = [r \in Runs |-> NONE]
    /\ accounts_to_process = [r \in Runs |-> <<>>]
    /\ scanPage = [r \in Runs |-> 0]
    /\ scanIdx = [r \in Runs |-> 0]
    /\ candIdx = [r \in Runs |-> 0]
    /\ attempt = [r \in Runs |-> 0]
    /\ source = [r \in Runs |-> NONE]
    /\ processed_accounts = [r \in Runs |-> <<>>]
    /\ failed_accounts = [r \in Runs |-> <<>>]
    /\ result = [r \in Runs |-> Pending]
    /\ log = [r \in Runs |-> <<>>]

\* Every OU tree of up to MaxOUs units: each OU lies under the root or under an
\* OU listed before it, and carries any of the names.
AnyTree ==
    /\ nOUs \in 0..MaxOUs
    /\ ouParent \in [OUSet(nOUs) -> {ROOT} \cup OUSet(nOUs)]
    /\ \A o \in OUSet(nOUs) :
         IF ouParent[o] = ROOT THEN TRUE ELSE OUIndex(ouParent[o]) < OUIndex(o)
    /\ ouName \in [OUSet(nOUs) -> OUNames]

\* The trees lambda_handler is run on: the target nested under another OU,
\* the target directly under the root, and no OU with the target's name.
HandlerTrees ==
    { [parent |-> [o \in OUSet(2) |-> IF o = "ou-2" THEN "ou-1" ELSE ROOT],
       name   |-> [o \in OUSet(2) |-> IF o = "ou-2" THEN "Graveyard" ELSE "Eng"]],
      [parent |-> [o \in OUSet(2) |-> ROOT],
       name   |-> [o \in OUSet(2) |-> IF o = "ou-1" THEN "Graveyard" ELSE "Eng"]],
      [parent |-> [o \in OUSet(2) |-> ROOT],
       name   |-> [o \in OUSet(2) |-> IF o = "ou-1" THEN "graveyard" ELSE "Eng"]] }

HandlerTree ==
    \E t \in HandlerTrees :
        /\ nOUs = Cardinality(DOMAIN t.parent)
        /\ ouParent = t.parent
        /\ ouName = t.name

\* Up to max accounts, each in any of the given states and under any of the
\* given parents.
AnyAccounts(max, statuses, parents) ==
    /\ \E n \in 0..max : accountList = SubSeq(AccountIds, 1, n)
    /\ accStatus \in [Accounts -> statuses]
    /\ accParent \in [Accounts -> parents]

Init ==
    /\ HandlerTree
    /\ AnyAccounts(MaxAccounts, {"ACTIVE", "SUSPENDED"}, OUs)
    /\ pageSize \in 1..MaxPageSize
    /\ env \in {"Graveyard", NONE}
    /\ active = {"r1"}
    /\ changes = 0
    /\ InitRuns

\* One step of the invocation r.
Step(r) ==
    \/ Invoke(r)
    \/ Resolve(r)
    \/ ScanListPage(r)
    \/ ScanPageEnd(r)
    \/ ScanSkip(r)
    \/ ScanLookup(r)
    \/ NoCandidates(r)
    \/ BeginRelocation(r)
    \/ AttemptLookup(r)
    \/ AttemptMove(r)

Next == \E r \in Runs : Step(r)

Spec == Init /\ [][Next]_vars

\* An invocation that has started keeps running: each directory call returns
\* or fails, and time.sleep returns.
SpecFair == Spec /\ \A r \in Runs : WF_vars(Step(r))

(***************************************************************************)
(* get_ou_id_by_name called on its own, on every tree and every name.      *)
(***************************************************************************)
CallGetOuId(r) ==
    /\ r \in active
    /\ pc[r] = "idle"
    /\ \E wanted \in OUNames : ou_name' = Set(ou_name, r, wanted)
    /\ pc' = Set(pc, r, "resolve")
    /\ UNCHANGED <<dirVars, active, graveyard_ou_id, accounts_to_process, scanPage,
                   scanIdx, candIdx, attempt, source, processed_accounts,
                   failed_accounts, result, log>>

GetOuIdEnds(r) ==
    /\ pc[r] = "resolve"
    /\ \E fault \in ResolveFaults :
         LET ou_id == get_ou_id_by_name(ou_name[r], fault) IN
         /\ log' = Logged(r, Ev("resolve", "get_ou_id_by_name", NONE, NONE,
                                IF ou_id.kind = "raise" THEN NONE ELSE ou_id.val,
                                IF ou_id.kind = "raise" THEN ou_id.val ELSE "ok", 0))
         /\ pc' = Set(pc, r, "done")
         /\ result' = Set(result, r, ou_id)
    /\ UNCHANGED <<dirVars, active, ou_name, graveyard_ou_id, accounts_to_process,
                   scanPage, scanIdx, candIdx, attempt, source, processed_accounts,
                   failed_accounts>>

InitResolve ==
    /\ AnyTree
    /\ AnyAccounts(0, Statuses, {ROOT})
    /\ pageSize \in 1..MaxPageSize
    /\ env = NONE
    /\ active = {"r1"}
    /\ changes = 0
    /\ InitRuns

NextResolve == \E r \in Runs : CallGetOuId(r) \/ GetOuIdEnds(r)

SpecResolve == InitResolve /\ [][NextResolve]_vars

(***************************************************************************)
(* get_accounts_to_process called on its own, on every listing and every   *)
(* target id.                                                              *)
(***************************************************************************)
\* A list that outlives the call: the second call starts from what the first
\* one collected.
LeftoverList == accounts_to_process["r1"]

\* accounts_to_process = []   (line 156)
EmptyList == <<>>

CallScan(r) ==
    /\ r \in active
    /\ pc[r] = "idle"
    /\ \E target \in {ROOT} \cup OUs :
         graveyard_ou_id' = Set(graveyard_ou_id, r, target)
    /\ accounts_to_process' = Set(accounts_to_process, r, EmptyList)
    /\ pc' = Set(pc, r, "scan_page")
    /\ scanPage' = Set(scanPage, r, 1)
    /\ UNCHANGED <<dirVars, active, ou_name, scanIdx, candIdx,
                   attempt, source, processed_accounts, failed_accounts, result, log>>

\* return accounts_to_process (line 193)
ScanReturns(r) ==
    /\ pc[r] = "scanned"
    /\ pc' = Set(pc, r, "done")
    /\ result' = Set(result, r, Ret(accounts_to_process[r]))
    /\ UNCHANGED <<dirVars, active, ou_name, graveyard_ou_id, accounts_to_process,
                   scanPage, scanIdx, candIdx, attempt, source, processed_accounts,
                   failed_accounts, log>>

InitScan ==
    /\ HandlerTree
    /\ AnyAccounts(MaxListing, Statuses, {ROOT} \cup OUs)
    /\ pageSize \in 1..MaxPageSize
    /\ env = NONE
    /\ active = {"r1"}
    /\ changes = 0
    /\ InitRuns

NextScan ==
    \E r \in Runs :
        \/ CallScan(r)
        \/ ScanListPage(r)
        \/ ScanPageEnd(r)
        \/ ScanSkip(r)
        \/ ScanLookup(r)
        \/ ScanReturns(r)

SpecScan == InitScan /\ [][NextScan]_vars

(***************************************************************************)
(* get_current_parent called on its own, on every answer list_parents can  *)
(* give: a listing of up to MaxParents parents, each the root or an OU, a  *)
(* response without the "Parents" key, or a request-layer error.           *)
(***************************************************************************)
MaxParents == 2

ParentListings == UNION {[1..n -> {ROOT} \cup OUs] : n \in 0..MaxParents}

\* response = organizations_client.list_parents(ChildId=account_id), line 358
ParentResponses(account_id) ==
    list_parents(account_id)
        \cup {Ret([Parents |-> parents]) : parents \in ParentListings}
        \cup {Ret([ResponseMetadata |-> NONE])}

\* The call and its outcome; the log keeps the account asked about and the
\* response the directory gave.
CallGetCurrentParent(r) ==
    /\ r \in active
    /\ pc[r] = "idle"
    /\ \E account_id \in Accounts :
         \E response \in ParentResponses(account_id) :
            /\ log' = Logged(r, [op |-> "list_parents", acct |-> account_id,
                                 response |-> response])
            /\ result' = Set(result, r, get_current_parent(response))
    /\ pc' = Set(pc, r, "done")
    /\ UNCHANGED <<dirVars, active, ou_name, graveyard_ou_id, accounts_to_process,
                   scanPage, scanIdx, candIdx, attempt, source, processed_accounts,
                   failed_accounts>>

InitParent ==
    /\ HandlerTree
    /\ AnyAccounts(MaxAccounts, {"SUSPENDED"}, {ROOT} \cup OUs)
    /\ pageSize = 1
    /\ env = NONE
    /\ active = {"r1"}
    /\ changes = 0
    /\ InitRuns

NextParent == \E r \in Runs : CallGetCurrentParent(r)

SpecParent == InitParent /\ [][NextParent]_vars

(***************************************************************************)
(* get_accounts_to_process called twice in a row with the same target and  *)
(* nothing else touching the directory.                                    *)
(***************************************************************************)
\* The second call: made once the first has returned, with the first's target.
CallScanAgain ==
    /\ "r2" \in active
    /\ pc["r2"] = "idle"
    /\ pc["r1"] = "done"
    /\ result["r1"].kind = "return"
    /\ graveyard_ou_id' = Set(graveyard_ou_id, "r2", graveyard_ou_id["r1"])
    /\ accounts_to_process' = Set(accounts_to_process, "r2", EmptyList)
    /\ pc' = Set(pc, "r2", "scan_page")
    /\ scanPage' = Set(scanPage, "r2", 1)
    /\ UNCHANGED <<dirVars, active, ou_name, scanIdx, candIdx,
                   attempt, source, processed_accounts, failed_accounts, result, log>>

InitScanTwice ==
    /\ HandlerTree
    /\ AnyAccounts(MaxAccounts, Statuses, {ROOT} \cup OUs)
    /\ pageSize \in 1..MaxPageSize
    /\ env = NONE
    /\ active = {"r1", "r2"}
    /\ changes = 0
    /\ InitRuns

NextScanTwice ==
    \/ CallScan("r1")
    \/ CallScanAgain
    \/ \E r \in Runs :
         \/ ScanListPage(r)
         \/ ScanPageEnd(r)
         \/ ScanSkip(r)
         \/ ScanLookup(r)
         \/ ScanReturns(r)

SpecScanTwice == InitScanTwice /\ [][NextScanTwice]_vars

(***************************************************************************)
(* lambda_handler on one directory: root -> {A, B}, B -> {Graveyard};      *)
(* account 111 ACTIVE under A, 222 SUSPENDED under A, 333 SUSPENDED under  *)
(* Graveyard.                                                              *)
(***************************************************************************)
ScenarioDirectory ==
    /\ nOUs = Len(<<"A", "B", "Graveyard">>)
    /\ ouName = [o \in OUSet(nOUs) |-> <<"A", "B", "Graveyard">>[OUIndex(o)]]
    /\ ouParent = [o \in OUSet(nOUs) |-> <<ROOT, ROOT, "ou-2">>[OUIndex(o)]]
    /\ accountList = <<"111", "222", "333">>
    /\ accStatus = [a \in Accounts |->
                      IF a = "111" THEN "ACTIVE" ELSE "SUSPENDED"]
    /\ accParent = [a \in Accounts |->
                      IF a = "333" THEN "ou-3" ELSE "ou-1"]

InitScenario ==
    /\ ScenarioDirectory
    /\ pageSize \in 1..MaxPageSize
    /\ env = "Graveyard"
    /\ active = {"r1"}
    /\ changes = 0
    /\ InitRuns

\* The steps of lambda_handler on this directory.  The short-circuit of lines
\* 222-233 is left out: every completed scan keeps 222 (C14_Scenario), so
\* its condition never holds here.
NextScenario ==
    \E r \in Runs :
        \/ Invoke(r)
        \/ Resolve(r)
        \/ ScanListPage(r)
        \/ ScanPageEnd(r)
        \/ ScanSkip(r)
        \/ ScanLookup(r)
        \/ BeginRelocation(r)
        \/ AttemptLookup(r)
        \/ AttemptMove(r)

SpecScenario == InitScenario /\ [][NextScenario]_vars

(***************************************************************************)
(* Two invocations of lambda_handler that overlap: each is sequential, and *)
(* their directory calls interleave in any order, on the directory of the  *)
(* scenario.                                                               *)
(***************************************************************************)
InitTwo ==
    /\ ScenarioDirectory
    /\ pageSize \in 1..MaxPageSize
    /\ env = "Graveyard"
    /\ active = {"r1", "r2"}
    /\ changes = 0
    /\ InitRuns

SpecTwo == InitTwo /\ [][Next]_vars

\* An invocation that has started keeps running until it returns or raises.
SpecTwoFair == SpecTwo /\ \A r \in Runs : WF_vars(Step(r))

(***************************************************************************)
(* Two invocations of lambda_handler one after the other: the second       *)
(* starts when the first has returned a result with no failed account, and *)
(* nothing else touches the directory.                                     *)
(***************************************************************************)
InitAgain ==
    /\ HandlerTree
    /\ AnyAccounts(MaxShared, {"ACTIVE", "SUSPENDED"}, OUs)
    /\ pageSize \in 1..MaxPageSize
    /\ env = "Graveyard"
    /\ active = {"r1", "r2"}
    /\ changes = 0
    /\ InitRuns

NextAgain ==
    \/ Step("r1")
    \/ Returned("r1") /\ failed_accounts["r1"] = <<>> /\ Step("r2")

SpecAgain == InitAgain /\ [][NextAgain]_vars

(***************************************************************************)
(* lambda_handler on a directory that other actors change while it runs:   *)
(* organizations_client (line 20) talks to a shared service, so between    *)
(* two calls of the handler an account can be moved or change state and an *)
(* OU can be renamed.                                                      *)
(***************************************************************************)
MaxChanges == 1      \* changes the other actors make during a run

\* Another actor moves an account under another OU.
ExternalMove ==
    /\ changes < MaxChanges
    /\ changes' = changes + 1
    /\ \E a \in Accounts, p \in OUs :
         /\ accParent[a] # p
         /\ accParent' = [accParent EXCEPT ![a] = p]
    /\ UNCHANGED <<nOUs, ouParent, ouName, accountList, accStatus, pageSize, env,
                   active, runVars>>

\* Another actor closes or reopens an account.
ExternalStatus ==
    /\ changes < MaxChanges
    /\ changes' = changes + 1
    /\ \E a \in Accounts, st \in {"ACTIVE", "SUSPENDED"} :
         /\ accStatus[a] # st
         /\ accStatus' = [accStatus EXCEPT ![a] = st]
    /\ UNCHANGED <<nOUs, ouParent, ouName, accountList, accParent, pageSize, env,
                   active, runVars>>

\* Another actor renames an OU.
ExternalRename ==
    /\ changes < MaxChanges
    /\ changes' = changes + 1
    /\ \E o \in OUs, n \in {"Graveyard", "Eng"} :
         /\ ouName[o] # n
         /\ ouName' = [ouName EXCEPT ![o] = n]
    /\ UNCHANGED <<nOUs, ouParent, accountList, accStatus, accParent, pageSize, env,
                   active, runVars>>

InitDrift ==
    /\ HandlerTree
    /\ AnyAccounts(MaxShared, {"ACTIVE", "SUSPENDED"}, OUs)
    /\ pageSize \in 1..MaxPageSize
    /\ env = "Graveyard"
    /\ active = {"r1"}
    /\ changes = 0
    /\ InitRuns

NextDrift ==
    \/ Next
    \/ ExternalMove
    \/ ExternalStatus
    \/ ExternalRename

SpecDrift == InitDrift /\ [][NextDrift]_vars

(***************************************************************************)
(* Properties.                                                             *)
(***************************************************************************)

\* The events of run r that satisfy Test, in order.
Events(r, Test(_)) == SelectSeq(log[r], Test)

\* The accounts the listing holds that are SUSPENDED and not under target, in
\* listing order.
ClosedElsewhere(target) ==
    SelectSeq(accountList,
              LAMBDA a : accStatus[a] = "SUSPENDED" /\ accParent[a] # target)

\* C1: whatever the listing, its pages and the target id, a call of
\* get_accounts_to_process that returns, returns exactly the SUSPENDED accounts
\* whose parent is not the target, in listing order.
C1_ScanReturnsClosedElsewhere ==
    \A r \in Runs :
        Returned(r) => result[r].val = ClosedElsewhere(graveyard_ou_id[r])

\* A scan over several pages returned an account of a later page, left out a
\* SUSPENDED account under the target that precedes it, and passed over an
\* account in another state.
C1_Witness ==
    \E r \in Runs :
        /\ Returned(r)
        /\ Len(AccountPages) >= 2
        /\ \E i, j, k \in 1..Len(accountList) :
             /\ i < j
             /\ accStatus[accountList[i]] = "SUSPENDED"
             /\ accParent[accountList[i]] = graveyard_ou_id[r]
             /\ j > pageSize
             /\ result[r].val = <<accountList[j]>>
             /\ accStatus[accountList[k]] = "PENDING_CLOSURE"

\* The OUs of the tree that carry the name exactly.
Named(wanted) == {o \in OUs : ouName[o] = wanted}

\* C2: on every tree and for every name, a call of get_ou_id_by_name whose
\* directory calls all answer returns an OU carrying exactly that name when the
\* tree holds one at any depth, and raises the not-found ValueError when it
\* holds none.
C2_ResolveFindsExactName ==
    \A r \in Runs :
        (pc[r] = "done" /\ result[r] # Raise("ClientError")) =>
            IF Named(ou_name[r]) # {}
            THEN result[r].kind = "return" /\ result[r].val \in Named(ou_name[r])
            ELSE result[r] = Raise("ValueError: Could not find OU")

\* The name was found below the top level, in a tree where an OU listed earlier
\* carries the same name in another case.
C2_Witness ==
    \E r \in Runs :
        /\ Returned(r)
        /\ ou_name[r] = "Graveyard"
        /\ ouParent[result[r].val] # ROOT
        /\ \E o \in OUs :
             /\ ouName[o] = "graveyard"
             /\ OUIndex(o) < OUIndex(result[r].val)

(***************************************************************************)
(* lambda_handler's results, read off the log.                             *)
(***************************************************************************)
\* lambda_handler returned the aggregate.
Aggregated(r) == Returned(r) /\ result[r].val.body_type = "dict"

\* The move_account calls run r made for account a, and what each did.
MovesOf(r, a) == Events(r, LAMBDA e : e.op = "move_account" /\ e.acct = a)
MoveOuts(r, a) == [i \in 1..Len(MovesOf(r, a)) |-> MovesOf(r, a)[i].out]

\* The directory calls of run r's attempts for account a.
AttemptCalls(r, a) ==
    Events(r, LAMBDA e : e.phase = "move" /\ e.op # "sleep" /\ e.acct = a)

\* The delays run r slept for account a.
SleepsOf(r, a) ==
    LET sl == Events(r, LAMBDA e : e.op = "sleep" /\ e.acct = a)
    IN [i \in 1..Len(sl) |-> sl[i].delay]

AllMoves(r) == Events(r, LAMBDA e : e.op = "move_account")

\* Run r's resolution answered and every call of its scan answered, to the
\* last page.
ScanSucceeded(r) ==
    /\ pc[r] \notin {"idle", "resolve", "scan_page", "scan_acct"}
    /\ \A i \in 1..Len(log[r]) :
         log[r][i].phase \in {"resolve", "scan"} => log[r][i].out = "ok"
    /\ Len(Events(r, LAMBDA e : e.op = "list_accounts")) = Len(AccountPages)

\* seq without its k-th element.
Without(seq, k) == SubSeq(seq, 1, k - 1) \o SubSeq(seq, k + 1, Len(seq))

\* C3: when no move of candidate k succeeded and every call made for the other
\* candidates succeeded, the aggregate lists the other candidates as processed,
\* in scan order, and candidate k alone as failed; each other candidate got its
\* move_account call, wherever k stands.
C3_FailureIsolation ==
    \A r \in Runs :
        Aggregated(r) =>
            LET cands == accounts_to_process[r] IN
            \A k \in 1..Len(cands) :
                ( /\ \A i \in 1..Len(MoveOuts(r, cands[k])) :
                        MoveOuts(r, cands[k])[i] # "ok"
                  /\ \A j \in 1..Len(cands) : j # k =>
                        \A i \in 1..Len(AttemptCalls(r, cands[j])) :
                            AttemptCalls(r, cands[j])[i].out = "ok" )
                => /\ result[r].val.body.processed_accounts = Without(cands, k)
                   /\ result[r].val.body.failed_accounts = <<cands[k]>>
                   /\ \A j \in 1..Len(cands) : j # k =>
                        MoveOuts(r, cands[j]) = <<"ok">>

\* The first of two candidates used up its three attempts and the second was
\* still moved.
C3_Witness ==
    \E r \in Runs :
        /\ Aggregated(r)
        /\ Len(accounts_to_process[r]) = 2
        /\ MoveOuts(r, accounts_to_process[r][1]) =
               <<"ClientError", "ClientError", "ClientError">>
        /\ result[r].val.body.processed_accounts = <<accounts_to_process[r][2]>>
        /\ result[r].val.body.failed_accounts = <<accounts_to_process[r][1]>>

\* C4: in the aggregate no account is both processed and failed, and every
\* account in either list was SUSPENDED when it was scanned.
C4_ListsDisjointAndClosed ==
    \A r \in Runs :
        Aggregated(r) =>
            LET processed == result[r].val.body.processed_accounts
                failed == result[r].val.body.failed_accounts
                InList(l) == {l[i] : i \in 1..Len(l)}
            IN /\ InList(processed) \cap InList(failed) = {}
               /\ \A a \in InList(processed) \cup InList(failed) :
                    a \in Accounts /\ accStatus[a] = "SUSPENDED"

\* An aggregate with an account in each list.
C4_Witness ==
    \E r \in Runs :
        /\ Aggregated(r)
        /\ result[r].val.body.processed_accounts # <<>>
        /\ result[r].val.body.failed_accounts # <<>>

\* An aggregate of a listing that also holds an account that is not closed.
C4_WitnessOpen ==
    \E r \in Runs :
        /\ Aggregated(r)
        /\ \E a \in Accounts : accStatus[a] = "ACTIVE"

\* C5: a candidate whose move_account calls fail with ClientError until the
\* p-th succeeds (p in 1..3) is recorded as processed, and the p-th call is the
\* last one made for it.
C5_FirstSuccessEndsAttempts ==
    \A r \in Runs : \A a \in Accounts : \A p \in 1..max_retries :
        LET outs == MoveOuts(r, a) IN
        ( /\ Len(outs) >= p
          /\ outs[p] = "ok"
          /\ \A i \in 1..(p - 1) : outs[i] = "ClientError" )
        => /\ Len(outs) = p
           /\ \E i \in 1..Len(processed_accounts[r]) : processed_accounts[r][i] = a
           /\ \A i \in 1..Len(failed_accounts[r]) : failed_accounts[r][i] # a
           /\ Aggregated(r) =>
                \E i \in 1..Len(result[r].val.body.processed_accounts) :
                    result[r].val.body.processed_accounts[i] = a

\* A candidate was moved at the third call, after two ClientErrors.
C5_Witness ==
    \E r \in Runs : \E a \in Accounts :
        /\ Aggregated(r)
        /\ MoveOuts(r, a) = <<"ClientError", "ClientError", "ok">>
        /\ result[r].val.body.processed_accounts = <<a>>

\* C6: a candidate whose move_account calls fail with ClientError three times
\* gets exactly those three calls and exactly two sleeps, of 1 and then 2
\* seconds, and is recorded as failed.
C6_ThreeFailuresBackoff ==
    \A r \in Runs : \A a \in Accounts :
        LET outs == MoveOuts(r, a) IN
        ( /\ Len(outs) >= 3
          /\ \A i \in 1..3 : outs[i] = "ClientError" )
        => /\ Len(outs) = 3
           /\ SleepsOf(r, a) = <<1, 2>>
           /\ \E i \in 1..Len(failed_accounts[r]) : failed_accounts[r][i] = a
           /\ \A i \in 1..Len(processed_accounts[r]) : processed_accounts[r][i] # a
           /\ LET calls == Events(r, LAMBDA e : e.phase = "move" /\ e.acct = a)
              IN [i \in 1..Len(calls) |-> calls[i].op] =
                     <<"list_parents", "move_account", "sleep",
                       "list_parents", "move_account", "sleep",
                       "list_parents", "move_account">>

\* The run returned with a candidate that failed three times in a row.
C6_Witness ==
    \E r \in Runs : \E a \in Accounts :
        /\ Aggregated(r)
        /\ MoveOuts(r, a) = <<"ClientError", "ClientError", "ClientError">>
        /\ result[r].val.body.failed_accounts = <<a>>

\* C7: once resolution and the scan have succeeded, lambda_handler does not
\* raise: when it ends it returns a result with statusCode 200, whatever failed
\* while the candidates were moved.
C7_AlwaysReturns200 ==
    \A r \in Runs :
        (pc[r] = "done" /\ ScanSucceeded(r)) =>
            /\ result[r].kind = "return"
            /\ result[r].val.statusCode = 200

\* Two candidates, every move failed, and the run returned the aggregate.
C7_Witness ==
    \E r \in Runs :
        /\ Aggregated(r)
        /\ ScanSucceeded(r)
        /\ Len(accounts_to_process[r]) = 2
        /\ result[r].val.body.processed_accounts = <<>>
        /\ result[r].val.body.failed_accounts = accounts_to_process[r]

\* C8: when the scan ends with no candidate, lambda_handler returns statusCode
\* 200 with the message 'No closed accounts found to process' as its body, not
\* an aggregate, and has called move_account for no account.
C8_NoCandidatesShortCircuit ==
    \A r \in Runs :
        (pc[r] = "done" /\ ScanSucceeded(r) /\ accounts_to_process[r] = <<>>) =>
            /\ result[r].kind = "return"
            /\ result[r].val.statusCode = 200
            /\ result[r].val.body_type = "str"
            /\ result[r].val.body = "No closed accounts found to process"
            /\ AllMoves(r) = <<>>

\* The short-circuit was returned with a SUSPENDED account already under the
\* target.
C8_Witness ==
    \E r \in Runs :
        /\ Returned(r)
        /\ result[r].val.body_type = "str"
        /\ \E a \in Accounts :
             accStatus[a] = "SUSPENDED" /\ accParent[a] = graveyard_ou_id[r]

\* C9: when no OU carries the configured name, lambda_handler ends by raising,
\* with the not-found ValueError unless a directory call of the search itself
\* failed, and the only thing it has asked the directory is the search: no
\* account listing, no parent lookup, no move.
C9_MissingTargetAborts ==
    \A r \in Runs :
        (env # NONE /\ Named(env) = {}) =>
            /\ pc[r] \in {"idle", "resolve", "done"}
            /\ \A i \in 1..Len(log[r]) : log[r][i].op = "get_ou_id_by_name"
            /\ pc[r] = "done" =>
                 /\ result[r].kind = "raise"
                 /\ result[r].val \in {"ValueError: Could not find OU", "ClientError"}
                 /\ log[r][Len(log[r])].out = "ok" =>
                        result[r].val = "ValueError: Could not find OU"

\* The run raised not-found on a tree that holds the name in another case,
\* with closed accounts waiting.
C9_Witness ==
    \E r \in Runs :
        /\ Raised(r)
        /\ result[r].val = "ValueError: Could not find OU"
        /\ \E o \in OUs : ouName[o] = "graveyard"
        /\ \E a \in Accounts : accStatus[a] = "SUSPENDED"

\* C10: once a list_accounts call or a parent lookup of the scan has failed,
\* the run has ended by raising that very error; the failed call is the last
\* one it made (no retry), and it has called move_account for no account.
C10_ScanFailureAborts ==
    \A r \in Runs : \A i \in 1..Len(log[r]) :
        (log[r][i].phase = "scan" /\ log[r][i].out # "ok") =>
            /\ i = Len(log[r])
            /\ pc[r] = "done"
            /\ result[r] = Raise(log[r][i].out)
            /\ AllMoves(r) = <<>>

\* The scan had collected a candidate when a parent lookup failed, and the
\* run raised.
C10_Witness ==
    \E r \in Runs :
        /\ Raised(r)
        /\ accounts_to_process[r] # <<>>
        /\ log[r][Len(log[r])].phase = "scan"
        /\ log[r][Len(log[r])].op = "list_parents"

\* The scan was on a later page when list_accounts failed, and the run raised.
C10_WitnessListing ==
    \E r \in Runs :
        /\ Raised(r)
        /\ scanPage[r] = 2
        /\ log[r][Len(log[r])].op = "list_accounts"


\* C11: with GRAVEYARD_OU_NAME unset, lambda_handler ends at once by raising
\* the KeyError of the lookup: it returns nothing, repeats nothing and has made
\* no call to the directory.
C11_MissingConfigurationAborts ==
    \A r \in Runs :
        env = NONE =>
            /\ pc[r] \in {"idle", "done"}
            /\ log[r] = <<>>
            /\ pc[r] = "done" => result[r] = Raise("KeyError")

\* The run raised KeyError in a directory that holds the target OU and a
\* closed account outside it.
C11_Witness ==
    \E r \in Runs :
        /\ env = NONE
        /\ Raised(r)
        /\ Named("Graveyard") # {}
        /\ \E a \in Accounts :
             accStatus[a] = "SUSPENDED" /\ accParent[a] \notin Named("Graveyard")


\* The calls of get_ou_id_by_name a run has made.
Resolutions(r) == Events(r, LAMBDA e : e.op = "get_ou_id_by_name")

\* The accounts a scan kept, given the parents its lookups reported and the
\* id it filters with.
KeptBy(r, target) ==
    LET kept == Events(r, LAMBDA e : /\ e.phase = "scan"
                                     /\ e.op = "list_parents"
                                     /\ e.out = "ok"
                                     /\ e.src # target)
    IN [i \in 1..Len(kept) |-> kept[i].acct]

\* C12: lambda_handler resolves the target id once, as its first call; the
\* scan filters with that id and every move_account names it as destination,
\* whatever other actors do to the OU tree and the accounts meanwhile.
C12_TargetResolvedOnce ==
    \A r \in Runs :
        LET res == Resolutions(r) IN
        /\ Len(res) <= 1
        /\ log[r] # <<>> => Len(res) = 1 /\ log[r][1] = res[1]
        /\ graveyard_ou_id[r] # NONE =>
             /\ Len(res) = 1
             /\ res[1].dst = graveyard_ou_id[r]
             /\ accounts_to_process[r] = KeptBy(r, res[1].dst)
             /\ \A i \in 1..Len(log[r]) :
                  log[r][i].op = "move_account" => log[r][i].dst = res[1].dst

\* An account was moved to the id resolved at the start although the name no
\* longer resolves to that id.
C12_Witness ==
    \E r \in Runs :
        /\ graveyard_ou_id[r] # NONE
        /\ get_ou_id_by_name(ou_name[r], NONE) # Ret(graveyard_ou_id[r])
        /\ \E i \in 1..Len(log[r]) :
             /\ log[r][i].op = "move_account"
             /\ log[r][i].out = "ok"
             /\ log[r][i].dst = graveyard_ou_id[r]


\* C13: two calls of get_accounts_to_process in a row with the same target
\* leave the directory as it was, and when both return they return the same
\* ordered list.
C13_ScanRepeatable ==
    /\ [](Returned("r1") /\ Returned("r2") => result["r2"].val = result["r1"].val)
    /\ [][dirVars' = dirVars]_vars

\* Both calls returned a list of two accounts after passing over a third
\* account or a page boundary.
C13_Witness ==
    /\ Returned("r1")
    /\ Returned("r2")
    /\ Len(result["r2"].val) >= 2
    /\ graveyard_ou_id["r2"] = graveyard_ou_id["r1"]
    /\ Len(log["r2"]) >= 3


\* The run has the scan behind it.
ScanDone(r) ==
    \/ pc[r] \in {"scanned", "lookup", "move"}
    \/ Returned(r)

\* C14: on the tree root -> {A, B}, B -> {Graveyard} with accounts 111 (ACTIVE,
\* under A), 222 (SUSPENDED, under A) and 333 (SUSPENDED, under Graveyard), a
\* resolution that meets no directory error returns Graveyard's id, a scan
\* that completes yields [222], and a run in which the move of 222 succeeds
\* returns processed [222], failed [], totals 1 and 0.
C14_Scenario ==
    \A r \in Runs :
        /\ \A i \in 1..Len(log[r]) :
             log[r][i].op = "get_ou_id_by_name" =>
                 \/ log[r][i].out = "ClientError"
                 \/ log[r][i].out = "ok" /\ log[r][i].dst = "ou-3"
        /\ graveyard_ou_id[r] # NONE => ouName[graveyard_ou_id[r]] = "Graveyard"
        /\ ScanDone(r) => accounts_to_process[r] = <<"222">>
        /\ pc[r] = "scanned" => ~NothingToProcess(accounts_to_process[r])
        /\ (/\ Returned(r)
            /\ \E i \in 1..Len(log[r]) :
                 log[r][i].op = "move_account" /\ log[r][i].out = "ok")
           => result[r].val =
                 [statusCode |-> 200,
                  body_type |-> "dict",
                  body |-> [processed_accounts |-> <<"222">>,
                            failed_accounts |-> <<>>,
                            total_processed |-> 1,
                            total_failed |-> 0]]

\* The run returned after moving 222 from A to Graveyard.
C14_Witness ==
    \E r \in Runs :
        /\ Returned(r)
        /\ accParent["222"] = "ou-3"
        /\ \E i \in 1..Len(log[r]) :
             /\ log[r][i].op = "move_account"
             /\ log[r][i].out = "ok"
             /\ log[r][i].acct = "222"
             /\ log[r][i].src = "ou-1"
             /\ log[r][i].dst = "ou-3"


\* Both runs are over.
BothFinished == \A r \in active : pc[r] = "done"

\* Both runs called move_account for the account a.
DuplicateAttempt(a) ==
    \A r \in {"r1", "r2"} :
        \E i \in 1..Len(log[r]) : log[r][i].op = "move_account" /\ log[r][i].acct = a

\* C15: two overlapping runs of lambda_handler both come to an end; a run whose
\* resolution and scan succeeded ends by returning statusCode 200, also when
\* the other run attempts the same accounts; and once both are over, every
\* account either reports as processed is under the target.
C15_OverlapTolerated ==
    /\ <>BothFinished
    /\ [](\A r \in Runs :
            pc[r] = "done" /\ ScanSucceeded(r) =>
                Returned(r) /\ result[r].val.statusCode = 200)
    /\ [](BothFinished =>
            \A r \in Runs :
                Aggregated(r) =>
                    \A i \in 1..Len(result[r].val.body.processed_accounts) :
                        accParent[result[r].val.body.processed_accounts[i]]
                            = graveyard_ou_id[r])

\* Both runs attempted the same account, one moved it, the other reports it
\* failed, and both returned statusCode 200.
C15_Witness ==
    /\ BothFinished
    /\ \A r \in {"r1", "r2"} : Aggregated(r) /\ result[r].val.statusCode = 200
    /\ \E a \in Accounts :
         /\ DuplicateAttempt(a)
         /\ result["r1"].val.body.processed_accounts = <<a>>
         /\ result["r2"].val.body.failed_accounts = <<a>>


\* The entries of run r's log that are move_account calls ended by an
\* exception other than ClientError.
OtherErrors(r) ==
    {i \in 1..Len(log[r]) :
        /\ log[r][i].op = "move_account"
        /\ log[r][i].out \notin {"ok", "ClientError"}}

\* The lookups run r made for account a in the move phase: one per attempt.
AttemptsOf(r, a) ==
    Len(Events(r, LAMBDA e : e.phase = "move" /\ e.op = "list_parents" /\ e.acct = a))

InSeq(x, seq) == \E k \in 1..Len(seq) : seq[k] = x

\* C16 as stated: an account whose move attempt ended in an error other than
\* ClientError is recorded as failed only after max_retries attempts.
C16_AnyErrorRetried ==
    \A r \in Runs : \A i \in OtherErrors(r) :
        InSeq(log[r][i].acct, failed_accounts[r]) =>
            AttemptsOf(r, log[r][i].acct) = max_retries

\* C16, amended: an error other than ClientError raised by move_account is not
\* retried.  It is the last entry of the log about its account (no sleep, no
\* further lookup or move), whatever the attempt, and the account is in
\* failed_accounts from that step on.
C16_OtherErrorFailsAtOnce ==
    \A r \in Runs : \A i \in OtherErrors(r) :
        /\ \A j \in (i + 1)..Len(log[r]) : log[r][j].acct # log[r][i].acct
        /\ InSeq(log[r][i].acct, failed_accounts[r])
        /\ ~InSeq(log[r][i].acct, processed_accounts[r])

\* The first attempt for an account ended in an error other than ClientError:
\* the account is recorded as failed after that one attempt, and the run went
\* on to the next candidate.
C16_Witness ==
    \E r \in Runs : \E i \in OtherErrors(r) :
        /\ AttemptsOf(r, log[r][i].acct) = 1
        /\ failed_accounts[r] = <<log[r][i].acct>>
        /\ i < Len(log[r])
        /\ log[r][i + 1].op = "list_parents"
        /\ log[r][i + 1].phase = "move"


\* The entries of run r's log that are failed parent lookups of the move phase.
FailedLookups(r) ==
    {i \in 1..Len(log[r]) :
        /\ log[r][i].phase = "move"
        /\ log[r][i].op = "list_parents"
        /\ log[r][i].out # "ok"}

\* The attempt (1, 2, ...) the i-th entry of run r's log belongs to.
AttemptAt(r, i) ==
    Cardinality({j \in 1..i : /\ log[r][j].phase = "move"
                              /\ log[r][j].op = "list_parents"
                              /\ log[r][j].acct = log[r][i].acct})

\* Nothing after the i-th entry of run r's log concerns its account, and the
\* account is recorded as failed.
EndsAccount(r, i) ==
    /\ \A j \in (i + 1)..Len(log[r]) : log[r][j].acct # log[r][i].acct
    /\ InSeq(log[r][i].acct, failed_accounts[r])

RECURSIVE PreOrder(_)
RECURSIVE PreOrderOf(_)
PreOrderOf(children) ==
    IF children = <<>> THEN <<>>
    ELSE <<Head(children)>> \o PreOrder(Head(children)) \o PreOrderOf(Tail(children))

PreOrder(g) == PreOrderOf(ChildOUs(g))

\* The first OU of seq that carries the name wanted, or None.
FirstNamed(seq, wanted) ==
    LET named == SelectSeq(seq, LAMBDA o : ouName[o] = wanted) IN
    IF named = <<>> THEN NONE ELSE Head(named)

\* The search as C18 words it: an immediate child with the name wins; failing
\* that, the children are searched one after the other.
RECURSIVE LevelFirst(_, _)
RECURSIVE LevelFirstOf(_, _)
LevelFirstOf(children, wanted) ==
    IF children = <<>> THEN NONE
    ELSE LET below == LevelFirst(Head(children), wanted) IN
         IF below # NONE THEN below ELSE LevelFirstOf(Tail(children), wanted)

LevelFirst(g, wanted) ==
    IF FirstNamed(ChildOUs(g), wanted) # NONE
    THEN FirstNamed(ChildOUs(g), wanted)
    ELSE LevelFirstOf(ChildOUs(g), wanted)

\* C18 as stated: get_ou_id_by_name returns an immediate child with the target
\* name when the grouping searched has one, and descends into the children,
\* one after the other, only when it has none.
C18_ImmediateChildWins ==
    \A r \in Runs :
        Returned(r) => result[r].val = LevelFirst(ROOT, ou_name[r])

\* C18, amended: get_ou_id_by_name returns the first OU with the target name
\* in depth-first pre-order: a child is compared, then everything below it is
\* searched, before the next sibling is compared.
C18_FirstInPreOrder ==
    \A r \in Runs :
        Returned(r) => result[r].val = FirstNamed(PreOrder(ROOT), ou_name[r])

\* The search returned an OU nested under an earlier sibling although a later
\* immediate child of the root carries the target name.
C18_Witness ==
    \E r \in Runs :
        /\ Returned(r)
        /\ ouParent[result[r].val] # ROOT
        /\ \E o \in OUs : ouParent[o] = ROOT /\ ouName[o] = ou_name[r]


\* The entries of run r's log that are successful parent lookups of the move
\* phase.
GoodLookups(r) ==
    {i \in 1..Len(log[r]) :
        /\ log[r][i].phase = "move"
        /\ log[r][i].op = "list_parents"
        /\ log[r][i].out = "ok"}

\* C19: a candidate stays a candidate whatever other actors do to it after the
\* scan.  Each candidate gets its lookup, and every lookup that reports a
\* parent is followed by a move_account call for that account with the
\* reported parent as source and the target as destination: nothing about the
\* account's state or place is checked in between.
C19_SnapshotNotRevalidated ==
    \A r \in Runs :
        /\ \A i \in GoodLookups(r) :
             IF i = Len(log[r])
             THEN /\ pc[r] = "move"
                  /\ Candidate(r) = log[r][i].acct
                  /\ source[r] = log[r][i].src
             ELSE /\ log[r][i + 1].op = "move_account"
                  /\ log[r][i + 1].acct = log[r][i].acct
                  /\ log[r][i + 1].src = log[r][i].src
                  /\ log[r][i + 1].dst = graveyard_ou_id[r]
        /\ Aggregated(r) =>
             \A k \in 1..Len(accounts_to_process[r]) :
                 \E i \in 1..Len(log[r]) :
                     /\ log[r][i].phase = "move"
                     /\ log[r][i].op = "list_parents"
                     /\ log[r][i].acct = accounts_to_process[r][k]

\* Another actor moved a candidate under the target after the scan, and the
\* handler called move_account for it with the target as source parent.
C19_Witness ==
    \E r \in Runs : \E i \in 1..Len(log[r]) :
        /\ log[r][i].op = "move_account"
        /\ log[r][i].src = graveyard_ou_id[r]
        /\ log[r][i].dst = graveyard_ou_id[r]
        /\ InSeq(log[r][i].acct, accounts_to_process[r])
        /\ changes > 0

\* Another actor reopened a candidate after the scan, and the handler called
\* move_account for it all the same.
C19_WitnessReopened ==
    \E r \in Runs :
        /\ log[r] # <<>>
        /\ log[r][Len(log[r])].op = "move_account"
        /\ log[r][Len(log[r])].out = "ok"
        /\ accStatus[log[r][Len(log[r])].acct] = "ACTIVE"


PhaseRank(phase) ==
    CASE phase = "resolve" -> 1
      [] phase = "scan" -> 2
      [] phase = "move" -> 3

\* The place of account a in seq (0 when it is not there).
Pos(a, seq) ==
    IF InSeq(a, seq) THEN CHOOSE k \in 1..Len(seq) : seq[k] = a ELSE 0

\* The account is in one of the two result lists of run r.
Recorded(r, a) == InSeq(a, processed_accounts[r]) \/ InSeq(a, failed_accounts[r])

MoveEntries(r) == {i \in 1..Len(log[r]) : log[r][i].phase = "move"}

\* C20: the calls of one run are in order.  The resolution is the first call
\* and has returned before any call of the scan; the scan has listed every
\* page before any call of the move phase; from one log entry to the next the
\* phase never goes back and the move phase follows the scan order of the
\* candidates; every call for a candidate comes after the candidates before
\* it are recorded as processed or failed, and before it is recorded itself.
C20_StrictOrder ==
    \A r \in Runs :
        /\ \A i \in 1..(Len(log[r]) - 1) :
             PhaseRank(log[r][i].phase) <= PhaseRank(log[r][i + 1].phase)
        /\ log[r] # <<>> => log[r][1].op = "get_ou_id_by_name"
        /\ Len(log[r]) > 1 => log[r][1].out = "ok"
        /\ MoveEntries(r) # {} =>
             /\ Len(Events(r, LAMBDA e : e.op = "list_accounts")) = Len(AccountPages)
             /\ \A i \in 1..Len(log[r]) :
                  log[r][i].phase = "scan" => log[r][i].out = "ok"
        /\ \A i \in MoveEntries(r) :
             /\ Pos(log[r][i].acct, accounts_to_process[r]) > 0
             /\ i < Len(log[r]) =>
                  Pos(log[r][i].acct, accounts_to_process[r])
                      <= Pos(log[r][i + 1].acct, accounts_to_process[r])
        /\ \A j \in MoveEntries(r) :
             \A k \in 1..(Pos(log[r][j].acct, accounts_to_process[r]) - 1) :
                 Recorded(r, accounts_to_process[r][k])
        /\ pc[r] \in {"lookup", "move"} => ~Recorded(r, Candidate(r))

\* A run with two candidates: the first used up its three attempts with both
\* sleeps and was recorded as failed before the first call for the second,
\* which was moved.
C20_Witness ==
    \E r \in Runs :
        /\ Aggregated(r)
        /\ Len(accounts_to_process[r]) = 2
        /\ failed_accounts[r] = <<accounts_to_process[r][1]>>
        /\ processed_accounts[r] = <<accounts_to_process[r][2]>>
        /\ Len(Events(r, LAMBDA e : e.op = "sleep")) = 2
        /\ Len(Events(r, LAMBDA e : e.op = "list_accounts")) >= 2


\* The accounts of list keep the order they have in cands, and all are in it.
InOrderOf(list, cands) ==
    /\ \A i \in 1..Len(list) : Pos(list[i], cands) > 0
    /\ \A i \in 1..(Len(list) - 1) : Pos(list[i], cands) < Pos(list[i + 1], cands)

\* C21: in every aggregate, processed_accounts and failed_accounts each list
\* their accounts in the order of the candidate list, and hold the lists the
\* loop has built.
C21_ListsInScanOrder ==
    \A r \in Runs :
        Aggregated(r) =>
            /\ result[r].val.body.processed_accounts = processed_accounts[r]
            /\ result[r].val.body.failed_accounts = failed_accounts[r]
            /\ InOrderOf(result[r].val.body.processed_accounts, accounts_to_process[r])
            /\ InOrderOf(result[r].val.body.failed_accounts, accounts_to_process[r])

\* Two candidates were both moved, the first one only at its second attempt,
\* and the aggregate lists them in scan order.
C21_Witness ==
    \E r \in Runs :
        /\ Aggregated(r)
        /\ Len(accounts_to_process[r]) = 2
        /\ result[r].val.body.processed_accounts = accounts_to_process[r]
        /\ MoveOuts(r, accounts_to_process[r][1]) = <<"ClientError", "ok">>

\* How often the account a occurs in seq.
Count(a, seq) == Cardinality({i \in 1..Len(seq) : seq[i] = a})

\* C22: in every aggregate each candidate occurs once, in one of the two
\* lists; the lists hold nothing else; total_processed and total_failed are
\* the lengths of the lists and add up to the number of candidates.
C22_EveryCandidateAccounted ==
    \A r \in Runs :
        Aggregated(r) =>
            LET body == result[r].val.body
                cands == accounts_to_process[r]
            IN /\ \A k \in 1..Len(cands) :
                    Count(cands[k], body.processed_accounts)
                        + Count(cands[k], body.failed_accounts) = 1
               /\ body.total_processed = Len(body.processed_accounts)
               /\ body.total_failed = Len(body.failed_accounts)
               /\ body.total_processed + body.total_failed = Len(cands)

\* An aggregate over two candidates with one in each list and totals 1 and 1.
C22_Witness ==
    \E r \in Runs :
        /\ Aggregated(r)
        /\ Len(accounts_to_process[r]) = 2
        /\ result[r].val.body.total_processed = 1
        /\ result[r].val.body.total_failed = 1
        /\ result[r].val.body.processed_accounts = <<accounts_to_process[r][2]>>


\* The scan of run r looked the account a up and found it outside target.
ScannedOutside(r, a, target) ==
    \E i \in 1..Len(log[r]) :
        /\ log[r][i].phase = "scan"
        /\ log[r][i].op = "list_parents"
        /\ log[r][i].acct = a
        /\ log[r][i].out = "ok"
        /\ log[r][i].src # target

\* Run r's last call was a move_account that the directory carried out.
JustMoved(r) ==
    /\ log[r] # <<>>
    /\ log[r][Len(log[r])].op = "move_account"
    /\ log[r][Len(log[r])].out = "ok"

\* C23: the only call of a run that asks the directory to change something is
\* move_account, made in the move phase for accounts of the candidate list
\* only, i.e. accounts the scan found SUSPENDED and outside the target.  A step
\* of a run changes the directory only when it is a move_account call that
\* succeeded, and then only the parent of that account.
C23_OnlyCandidatesMoved ==
    /\ [](\A r \in Runs : \A i \in 1..Len(log[r]) :
            /\ log[r][i].op \in {"get_ou_id_by_name", "list_accounts",
                                 "list_parents", "move_account", "sleep"}
            /\ log[r][i].op = "move_account" =>
                 /\ log[r][i].phase = "move"
                 /\ InSeq(log[r][i].acct, accounts_to_process[r])
                 /\ ScannedOutside(r, log[r][i].acct, graveyard_ou_id[r]))
    /\ [][(changes' = changes /\ dirVars' # dirVars) =>
            \E r \in Runs :
                /\ log'[r] # log[r]
                /\ JustMoved(r)'
                /\ <<nOUs, ouParent, ouName, accountList, accStatus, pageSize, env>>'
                     = <<nOUs, ouParent, ouName, accountList, accStatus, pageSize, env>>
                /\ \A a \in Accounts :
                     accParent'[a] # accParent[a] => a = log'[r][Len(log'[r])].acct]_vars

\* The scan passed over an account that was ACTIVE; another actor closed it
\* afterwards; the run ended without a move_account call although the account
\* is now SUSPENDED and outside the target.
C23_Witness ==
    \E r \in Runs :
        /\ Returned(r)
        /\ AllMoves(r) = <<>>
        /\ \E a \in Accounts :
             /\ accStatus[a] = "SUSPENDED"
             /\ accParent[a] # graveyard_ou_id[r]
             /\ ~InSeq(a, accounts_to_process[r])

\* A run moved a candidate, and that is the one change it made.
C23_WitnessMoved ==
    \E r \in Runs :
        /\ Aggregated(r)
        /\ changes = 0
        /\ JustMoved(r)
        /\ accParent[log[r][Len(log[r])].acct] = graveyard_ou_id[r]


\* The parent the scan of run r saw for the account a.
ScanParent(r, a) ==
    LET seen == Events(r, LAMBDA e : /\ e.phase = "scan"
                                     /\ e.op = "list_parents"
                                     /\ e.acct = a)
    IN seen[1].src

\* The entries of run r's log that concern the account a in the move phase.
MoveCalls(r, a) == Events(r, LAMBDA e : e.phase = "move" /\ e.acct = a)

\* C24: an account in failed_accounts had no successful move_account call and
\* still is where the scan saw it; an account in processed_accounts had one
\* successful move_account call, the last call made for it, and is under the
\* target.
C24_MoveEffects ==
    \A r \in Runs :
        /\ \A k \in 1..Len(failed_accounts[r]) :
             LET a == failed_accounts[r][k] IN
             /\ \A i \in 1..Len(MoveOuts(r, a)) : MoveOuts(r, a)[i] # "ok"
             /\ accParent[a] = ScanParent(r, a)
        /\ \A k \in 1..Len(processed_accounts[r]) :
             LET a == processed_accounts[r][k]
                 calls == MoveCalls(r, a)
             IN /\ Cardinality({i \in 1..Len(calls) :
                                   calls[i].op = "move_account" /\ calls[i].out = "ok"}) = 1
                /\ calls[Len(calls)].op = "move_account"
                /\ calls[Len(calls)].out = "ok"
                /\ accParent[a] = graveyard_ou_id[r]

\* One candidate failed after its move_account calls had all failed and is
\* still under its parent; the other was moved at its second attempt.
C24_Witness ==
    \E r \in Runs :
        /\ Aggregated(r)
        /\ Len(failed_accounts[r]) = 1
        /\ Len(processed_accounts[r]) = 1
        /\ Len(MoveOuts(r, failed_accounts[r][1])) = 3
        /\ accParent[failed_accounts[r][1]] # graveyard_ou_id[r]
        /\ Len(MoveOuts(r, processed_accounts[r][1])) = 2


\* C25: every move_account call comes right after a parent lookup of the move
\* phase for the same account that reported a parent, and passes that parent
\* as SourceParentId, whatever the scan saw; its DestinationParentId is the id
\* the resolution returned at the start of the run.
C25_SourceFromFreshLookup ==
    \A r \in Runs : \A i \in 1..Len(log[r]) :
        log[r][i].op = "move_account" =>
            /\ i > 1
            /\ log[r][i - 1].phase = "move"
            /\ log[r][i - 1].op = "list_parents"
            /\ log[r][i - 1].out = "ok"
            /\ log[r][i - 1].acct = log[r][i].acct
            /\ log[r][i].src = log[r][i - 1].src
            /\ log[r][1].op = "get_ou_id_by_name"
            /\ log[r][i].dst = log[r][1].dst

\* Another actor moved a candidate after the scan: the move_account call
\* carries the parent of the new lookup, not the one the scan saw.
C25_Witness ==
    \E r \in Runs : \E i \in 1..Len(log[r]) :
        /\ log[r][i].op = "move_account"
        /\ log[r][i].src # ScanParent(r, log[r][i].acct)
        /\ log[r][i].src = log[r][i - 1].src


\* The entries of run r's log that are sleeps.
SleepEntries(r) == {i \in 1..Len(log[r]) : log[r][i].op = "sleep"}

\* C26: no account gets more than max_retries attempts (lookups or
\* move_account calls) or more than max_retries - 1 sleeps in a run.  Every
\* sleep comes right after a call for the same account that failed with
\* ClientError on the first or second attempt, and what follows it is the next
\* attempt for that account: there is no sleep after a call that succeeded or
\* after the third attempt.
C26_AttemptsAndSleepsBounded ==
    \A r \in Runs :
        /\ \A a \in Accounts :
             /\ AttemptsOf(r, a) <= max_retries
             /\ Len(MovesOf(r, a)) <= max_retries
             /\ Len(SleepsOf(r, a)) <= max_retries - 1
        /\ \A i \in SleepEntries(r) :
             /\ i > 1
             /\ log[r][i - 1].op \in {"list_parents", "move_account"}
             /\ log[r][i - 1].phase = "move"
             /\ log[r][i - 1].acct = log[r][i].acct
             /\ log[r][i - 1].out = "ClientError"
             /\ AttemptAt(r, i - 1) < max_retries
             /\ i < Len(log[r]) =>
                  /\ log[r][i + 1].op = "list_parents"
                  /\ log[r][i + 1].acct = log[r][i].acct

\* A candidate used three attempts and two sleeps and the run went on to
\* the next candidate without a third sleep.
C26_Witness ==
    \E r \in Runs : \E a \in Accounts :
        /\ AttemptsOf(r, a) = max_retries
        /\ Len(SleepsOf(r, a)) = max_retries - 1
        /\ InSeq(a, failed_accounts[r])
        /\ log[r][Len(log[r])].acct # a
        /\ log[r][Len(log[r])].phase = "move"


\* The candidate before the k-th used up its attempts.
AfterExhausted(r, k) ==
    /\ k > 1
    /\ AttemptsOf(r, accounts_to_process[r][k - 1]) = max_retries
    /\ InSeq(accounts_to_process[r][k - 1], failed_accounts[r])

\* C27: the attempts are counted per candidate.  For a candidate that comes
\* after one that used up its three attempts: a first move_account call that
\* fails with ClientError is followed by a sleep of base_delay, the second by a
\* sleep of twice that, and a third call is made; when the calls fail twice
\* and then succeed the candidate is recorded as processed.
C27_BudgetPerCandidate ==
    \A r \in Runs : \A k \in 1..Len(accounts_to_process[r]) :
        AfterExhausted(r, k) =>
            LET a == accounts_to_process[r][k]
                outs == MoveOuts(r, a)
                sleeps == SleepsOf(r, a)
            IN /\ (Len(outs) >= 1 /\ outs[1] = "ClientError") =>
                     Len(sleeps) >= 1 /\ sleeps[1] = base_delay
               /\ (Len(outs) >= 2 /\ outs[2] = "ClientError") =>
                     Len(sleeps) >= 2 /\ sleeps[2] = 2 * base_delay
               /\ outs = <<"ClientError", "ClientError", "ok">> =>
                     /\ InSeq(a, processed_accounts[r])
                     /\ ~InSeq(a, failed_accounts[r])
                     /\ sleeps = <<base_delay, 2 * base_delay>>

\* The first candidate used up its three attempts; the second failed twice,
\* slept 1 and 2 seconds, was moved at its third attempt and is reported as
\* processed.
C27_Witness ==
    \E r \in Runs :
        /\ Aggregated(r)
        /\ Len(accounts_to_process[r]) = 2
        /\ AfterExhausted(r, 2)
        /\ MoveOuts(r, accounts_to_process[r][2]) = <<"ClientError", "ClientError", "ok">>
        /\ SleepsOf(r, accounts_to_process[r][2]) = <<1, 2>>
        /\ result[r].val.body.processed_accounts = <<accounts_to_process[r][2]>>
        /\ result[r].val.body.failed_accounts = <<accounts_to_process[r][1]>>


\* The accounts the scan of run r has looked up, in order.
LookedUp(r) ==
    LET ev == Events(r, LAMBDA e : e.phase = "scan" /\ e.op = "list_parents")
    IN [i \in 1..Len(ev) |-> ev[i].acct]

\* The SUSPENDED accounts of the listing, in listing order.
Closed == SelectSeq(accountList, LAMBDA a : accStatus[a] = "SUSPENDED")

\* C28: the parent lookups of a scan are one for each SUSPENDED account it has
\* come to, in listing order, and none for an account in another state; a scan
\* that returns has looked up every SUSPENDED account once, and a scan that
\* ends on a failed lookup ends on the lookup of a SUSPENDED account.
C28_OneLookupPerClosedAccount ==
    \A r \in Runs :
        /\ Len(LookedUp(r)) <= Len(Closed)
        /\ LookedUp(r) = SubSeq(Closed, 1, Len(LookedUp(r)))
        /\ Returned(r) => LookedUp(r) = Closed
        /\ (Raised(r) /\ log[r][Len(log[r])].op = "list_parents") =>
               accStatus[log[r][Len(log[r])].acct] = "SUSPENDED"

\* A scan returned after one lookup, on a listing that holds a SUSPENDED
\* account between an ACTIVE one and one in PENDING_CLOSURE.
C28_Witness ==
    \E r \in Runs :
        /\ Returned(r)
        /\ Len(LookedUp(r)) = 1
        /\ Len(accountList) = 3
        /\ accStatus[accountList[1]] = "ACTIVE"
        /\ accStatus[accountList[2]] = "SUSPENDED"
        /\ accStatus[accountList[3]] = "PENDING_CLOSURE"


\* C29: every run of lambda_handler comes to an end, and it ends either by
\* raising or by returning a result, with no more than max_retries attempts
\* made for any account.
C29_Terminates ==
    /\ <>(\A r \in active : pc[r] = "done")
    /\ [](\A r \in Runs :
            /\ pc[r] = "done" => result[r].kind \in {"raise", "return"}
            /\ \A a \in Accounts : AttemptsOf(r, a) <= max_retries)

\* A run returned after the longest way through: two candidates, three
\* attempts and two sleeps each.
C29_Witness ==
    \E r \in Runs :
        /\ Aggregated(r)
        /\ Len(accounts_to_process[r]) = MaxAccounts
        /\ \A k \in 1..Len(accounts_to_process[r]) :
             /\ AttemptsOf(r, accounts_to_process[r][k]) = max_retries
             /\ Len(SleepsOf(r, accounts_to_process[r][k])) = max_retries - 1


\* The first run moved every candidate it had, and had at least one.
AllRelocated(r) ==
    /\ Aggregated(r)
    /\ accounts_to_process[r] # <<>>
    /\ result[r].val.body.processed_accounts = accounts_to_process[r]
    /\ result[r].val.body.failed_accounts = <<>>

\* C30: after a run that reports every candidate as processed, with nothing
\* else changing the directory, the next run makes no move_account call, and
\* when its resolution and scan succeed it has no candidate and returns
\* 'No closed accounts found to process'.
C30_Convergence ==
    AllRelocated("r1") =>
        /\ AllMoves("r2") = <<>>
        /\ (pc["r2"] = "done" /\ ScanSucceeded("r2")) =>
              /\ accounts_to_process["r2"] = <<>>
              /\ result["r2"] = Ret(NoAccounts)

\* The first run moved its candidate; the second scanned the same directory,
\* looked the account up, and returned the message.
C30_Witness ==
    /\ AllRelocated("r1")
    /\ Returned("r2")
    /\ result["r2"].val.body = "No closed accounts found to process"
    /\ LookedUp("r2") = accounts_to_process["r1"]


(***************************************************************************)
(* C31: get_current_parent on its own.                                     *)
(***************************************************************************)
\* The response list_parents gave the call of run r, and the parents in it.
ResponseOf(r) == log[r][Len(log[r])].response
Reported(response) ==
    IF "Parents" \in DOMAIN response.val THEN response.val.Parents ELSE <<>>

\* C31: when list_parents answers, get_current_parent returns the id of the
\* first parent reported, be it an OU or the root, and when the answer reports
\* no parent it returns nothing and raises 'Could not find parent'.
C31_FirstParentOrError ==
    \A r \in Runs :
        (pc[r] = "done" /\ ResponseOf(r).kind = "return") =>
            IF Reported(ResponseOf(r)) # <<>>
            THEN /\ result[r] = Ret(Reported(ResponseOf(r))[1])
                 /\ result[r].val \in {ROOT} \cup OUs
            ELSE /\ result[r].kind # "return"
                 /\ result[r] = Raise("ValueError: Could not find parent")

\* Two parents reported, the root first and an OU second: the root is returned.
C31_Witness ==
    /\ pc["r1"] = "done"
    /\ ResponseOf("r1").kind = "return"
    /\ Len(Reported(ResponseOf("r1"))) = 2
    /\ Reported(ResponseOf("r1"))[1] = ROOT
    /\ Reported(ResponseOf("r1"))[2] \in OUs
    /\ result["r1"] = Ret(ROOT)

\* An OU reported alone: it is returned.
C31_WitnessOU ==
    /\ pc["r1"] = "done"
    /\ ResponseOf("r1").kind = "return"
    /\ Len(Reported(ResponseOf("r1"))) = 1
    /\ result["r1"].kind = "return"
    /\ result["r1"].val \in OUs

\* An empty listing: the error is raised.
C31_WitnessNone ==
    /\ pc["r1"] = "done"
    /\ ResponseOf("r1") = Ret([Parents |-> <<>>])
    /\ result["r1"] = Raise("ValueError: Could not find parent")

\* A response without the "Parents" key: the error is raised.
C31_WitnessNoKey ==
    /\ pc["r1"] = "done"
    /\ ResponseOf("r1").kind = "return"
    /\ "Parents" \notin DOMAIN ResponseOf("r1").val
    /\ result["r1"] = Raise("ValueError: Could not find parent")

====
